---------------------------- MODULE Spec2Model ----------------------------
(***************************************************************************)
(* A model of the Transport NSW tool adapter (src/api.py): four tools that *)
(* each marshal their arguments, issue one HTTP GET, and reshape the       *)
(* upstream JSON.  One tool call is in progress at a time; a call is two   *)
(* steps, the part of the handler up to requests.get (a Call action) and   *)
(* the part from the response to the return (a Return action). Between the*)
(* two the request is in flight and the wall clock may advance.            *)
(*                                                                         *)
(* Python strings are sequences of one-character strings, so that split,   *)
(* endswith, strptime and int are computed character by character.         *)
(* Aware datetimes are UTC instants [day, sec]: day is the number of days  *)
(* since 1970-01-01 and sec the second of that day; the local zone is a    *)
(* fixed offset of tz minutes.                                             *)
(***************************************************************************)
EXTENDS Integers, Sequences, FiniteSets, TLC

VARIABLES
    pc,         \* "idle", "waiting" (request in flight) or "done" (returned or raised)
    tool,       \* the tool being called, "none" when idle
    args,       \* the arguments of the call
    tz,         \* the process's local UTC offset, in minutes
    clock,      \* the wall clock, a UTC instant
    now,        \* the handler's local now (lines 175, 379): the local reading at the call
    target_time,\* get_departure_monitor's local target_time (line 193-202)
    requests,   \* the number of HTTP GETs issued by this call
    response,   \* what requests.get gave: an exception, or a status and a body
    params,     \* the query parameters of the request in flight
    today_date, \* get_departure_monitor's local today_date (line 252)
    processed_stops, \* get_departure_monitor's local of that name at line 304,
                     \* as positions in the upstream stopEvents list
    result      \* what the call gave its caller: a value, or a raised exception

vars == <<pc, tool, args, tz, clock, now, target_time, requests, response, params,
          today_date, processed_stops, result>>

---------------------------------------------------------------------------
(* Sequences and Python strings                                            *)

Range(s) == {s[i] : i \in DOMAIN s}

Min(a, b) == IF a <= b THEN a ELSE b

Max(a, b) == IF a >= b THEN a ELSE b

Abs(a) == IF a >= 0 THEN a ELSE -a

DigitChars == <<"0", "1", "2", "3", "4", "5", "6", "7", "8", "9">>

IsDigit(c) == c \in Range(DigitChars)

DigitVal(c) == (CHOOSE i \in DOMAIN DigitChars : DigitChars[i] = c) - 1

AllDigits(s) == \A i \in DOMAIN s : IsDigit(s[i])

RECURSIVE DecimalValue(_)
\* The value of a string of decimal digits.
DecimalValue(s) ==
    IF s = <<>> THEN 0
    ELSE 10 * DecimalValue(SubSeq(s, 1, Len(s) - 1)) + DigitVal(s[Len(s)])

\* The position of the first c in s, 0 when there is none.
Find(s, c) ==
    IF \E i \in DOMAIN s : s[i] = c
    THEN CHOOSE i \in DOMAIN s : s[i] = c /\ \A j \in 1..(i - 1) : s[j] # c
    ELSE 0

RECURSIVE split(_, _)
\* str.split(sep) for a one-character separator.
split(s, sep) ==
    LET i == Find(s, sep) IN
    IF i = 0 THEN <<s>>
    ELSE <<SubSeq(s, 1, i - 1)>> \o split(SubSeq(s, i + 1, Len(s)), sep)

RECURSIVE Ascending(_)
\* The numbers of a finite set in increasing order.
Ascending(S) ==
    IF S = {} THEN <<>>
    ELSE LET top == CHOOSE x \in S : \A y \in S : y <= x IN
         Append(Ascending(S \ {top}), top)

endswith(s, c) == Len(s) > 0 /\ s[Len(s)] = c

RECURSIVE replace_drop(_, _)
\* str.replace(c, '').
replace_drop(s, c) ==
    IF s = <<>> THEN <<>>
    ELSE (IF Head(s) = c THEN <<>> ELSE <<Head(s)>>) \o replace_drop(Tail(s), c)

\* s[:n] of a Python list or string, for any integer n.
PySliceOffByOne(s, n) ==
    IF n >= 0 THEN SubSeq(s, 1, Min(n + 1, Len(s)))
    ELSE SubSeq(s, 1, Max(Len(s) + n + 1, 0))

PySlice(s, n) ==
    IF n >= 0 THEN SubSeq(s, 1, Min(n, Len(s)))
    ELSE SubSeq(s, 1, Max(Len(s) + n, 0))

\* int(s): an optional sign and decimal digits; anything else is a ValueError.
py_int(s) ==
    LET signed == Len(s) > 0 /\ s[1] \in {"-", "+"}
        digits == IF signed THEN Tail(s) ELSE s
    IN  IF digits # <<>> /\ AllDigits(digits)
        THEN [ok |-> TRUE,
              v |-> IF signed /\ s[1] = "-" THEN -DecimalValue(digits)
                    ELSE DecimalValue(digits)]
        ELSE [ok |-> FALSE]

Pad2(n) == <<DigitChars[((n \div 10) % 10) + 1], DigitChars[(n % 10) + 1]>>

Pad4(n) == Pad2(n \div 100) \o Pad2(n % 100)

---------------------------------------------------------------------------
(* Calendar arithmetic of datetime                                         *)

IsLeap(y) == (y % 4 = 0 /\ y % 100 # 0) \/ y % 400 = 0

DaysInMonth(y, m) ==
    IF m = 2 THEN (IF IsLeap(y) THEN 29 ELSE 28)
    ELSE IF m \in {4, 6, 9, 11} THEN 30 ELSE 31

\* Days from 1970-01-01 to the civil date y-m-d.
DaysFromCivil(y, m, d) ==
    LET yy  == IF m <= 2 THEN y - 1 ELSE y
        era == yy \div 400
        yoe == yy - era * 400
        mp  == IF m > 2 THEN m - 3 ELSE m + 9
        doy == (153 * mp + 2) \div 5 + d - 1
        doe == yoe * 365 + yoe \div 4 - yoe \div 100 + doy
    IN  era * 146097 + doe - 719468

\* The civil date [y, m, d] of a day number.
CivilFromDays(z) ==
    LET zz  == z + 719468
        era == zz \div 146097
        doe == zz - era * 146097
        yoe == (doe - doe \div 1460 + doe \div 36524 - doe \div 146096) \div 365
        doy == doe - (365 * yoe + yoe \div 4 - yoe \div 100)
        mp  == (5 * doy + 2) \div 153
        d   == doy - (153 * mp + 2) \div 5 + 1
        m   == IF mp < 10 THEN mp + 3 ELSE mp - 9
    IN  [y |-> yoe + era * 400 + (IF m <= 2 THEN 1 ELSE 0), m |-> m, d |-> d]

\* An instant moved by a number of seconds (less than a day either way).
Shift(t, secs) ==
    LET s == t.sec + secs IN
    [day |-> t.day + s \div 86400, sec |-> s % 86400]

\* astimezone(): the local wall-clock reading of a UTC instant.
astimezone(t, offset) == Shift(t, offset * 60)

\* A local wall-clock reading taken back to the UTC instant.
from_local(l, offset) == Shift(l, -(offset * 60))

\* (a - b).total_seconds()
total_seconds(a, b) == (a.day - b.day) * 86400 + (a.sec - b.sec)

\* a < b on aware datetimes.
dt_lt(a, b) == a.day < b.day \/ (a.day = b.day /\ a.sec < b.sec)

\* strftime('%Y-%m-%d') of a local reading, as the triple the string spells.
strftime_date(l) == LET c == CivilFromDays(l.day) IN <<c.y, c.m, c.d>>

\* 'YYYY-MM-DD' >= 'YYYY-MM-DD' on the strings strftime gives (zero padded).
date_str_ge(a, b) ==
    \/ a[1] > b[1]
    \/ a[1] = b[1] /\ a[2] > b[2]
    \/ a[1] = b[1] /\ a[2] = b[2] /\ a[3] >= b[3]

---------------------------------------------------------------------------
(* datetime.strptime(s, "%Y-%m-%dT%H:%M:%S")                               *)

\* A field of one or two digits whose value lies in lo..hi.
NumField(f, lo, hi) ==
    /\ Len(f) \in {1, 2}
    /\ AllDigits(f)
    /\ DecimalValue(f) \in lo..hi

\* %d also takes a space followed by one digit.
DayField(f) ==
    \/ NumField(f, 1, 31)
    \/ Len(f) = 2 /\ f[1] = " " /\ IsDigit(f[2]) /\ f[2] # "0"

FieldValue(f) == DecimalValue(IF f[1] = " " THEN Tail(f) ELSE f)

\* The format's literals between the fields; the match ignores case.
strptime(s) ==
    LET dash1 == Find(s, "-")
        r1    == SubSeq(s, dash1 + 1, Len(s))
        dash2 == Find(r1, "-")
        r2    == SubSeq(r1, dash2 + 1, Len(r1))
        tpos  == IF Find(r2, "T") = 0 THEN Find(r2, "t")
                 ELSE IF Find(r2, "t") = 0 THEN Find(r2, "T")
                 ELSE Min(Find(r2, "T"), Find(r2, "t"))
        r3    == SubSeq(r2, tpos + 1, Len(r2))
        col1  == Find(r3, ":")
        r4    == SubSeq(r3, col1 + 1, Len(r3))
        col2  == Find(r4, ":")
        fY    == SubSeq(s, 1, dash1 - 1)
        fm    == SubSeq(r1, 1, dash2 - 1)
        fd    == SubSeq(r2, 1, tpos - 1)
        fH    == SubSeq(r3, 1, col1 - 1)
        fM    == SubSeq(r4, 1, col2 - 1)
        fS    == SubSeq(r4, col2 + 1, Len(r4))
    IN  IF /\ dash1 # 0 /\ dash2 # 0 /\ tpos # 0 /\ col1 # 0 /\ col2 # 0
           /\ Len(fY) = 4 /\ AllDigits(fY) /\ DecimalValue(fY) >= 1
           /\ NumField(fm, 1, 12)
           /\ DayField(fd)
           /\ FieldValue(fd) <= DaysInMonth(DecimalValue(fY), DecimalValue(fm))
           /\ NumField(fH, 0, 23)
           /\ NumField(fM, 0, 59)
           /\ NumField(fS, 0, 59)
        THEN [ok |-> TRUE,
              dt |-> [day |-> DaysFromCivil(DecimalValue(fY), DecimalValue(fm),
                                            FieldValue(fd)),
                      sec |-> DecimalValue(fH) * 3600 + DecimalValue(fM) * 60
                              + DecimalValue(fS)]]
        ELSE [ok |-> FALSE]

\* Lines 263-269: drop the fraction, drop a trailing Z, parse as UTC.
parse_departure(departure_time) ==
    LET first      == split(departure_time, ".")[1]
        clean_time == IF endswith(first, "Z")
                      THEN SubSeq(first, 1, Len(first) - 1) ELSE first
    IN  strptime(clean_time)

---------------------------------------------------------------------------
(* Python values                                                           *)

None == [t |-> "None"]

Str(s) == [t |-> "str", s |-> s]

IsNone(v) == v.t = "None"

Returned(v) == [kind |-> "return", value |-> v]

Raised(e) == [kind |-> "raise", exc |-> e]

\* d.get(k, default) on a dict modelled as a record.
Get(d, k, default) == IF k \in DOMAIN d THEN d[k] ELSE default

\* d.get(k1, {}).get(k2, default)
Get2(d, k1, k2, default) ==
    IF k1 \in DOMAIN d THEN Get(d[k1], k2, default) ELSE default

\* d.get(k1, {}).get(k2, {}).get(k3, default)
Get3(d, k1, k2, k3, default) ==
    IF k1 \in DOMAIN d THEN Get2(d[k1], k2, k3, default) ELSE default

---------------------------------------------------------------------------
(* The inputs: the environment, the arguments and the upstream answers     *)

MaxEvents == 3

MaxResultsBound == 3

Chars(digits) == [i \in DOMAIN digits |-> DigitChars[digits[i] + 1]]

\* An upstream timestamp YYYY-MM-DDTHH:MM:SS.
Iso(y, m, d, H, M, S) ==
    Pad4(y) \o <<"-">> \o Pad2(m) \o <<"-">> \o Pad2(d) \o <<"T">>
    \o Pad2(H) \o <<":">> \o Pad2(M) \o <<":">> \o Pad2(S)

T_0850Z == Iso(2026, 11, 3, 8, 50, 0) \o <<"Z">>

T_next0010frac == Iso(2026, 11, 4, 0, 10, 0) \o <<".", "0", "0", "0", "Z">>

T_0920Z == Iso(2026, 11, 3, 9, 20, 0) \o <<"Z">>

T_prev2330 == Iso(2026, 11, 2, 23, 30, 0)

T_noseconds == SubSeq(Iso(2026, 11, 3, 9, 0, 0), 1, 16) \o <<"Z">>

\* The stop events upstream may send.  Only the timestamps are spelled out
\* in characters; names are atoms, "" being the empty string.
SampleEvents ==
    { [departureTimePlanned |-> T_0850Z,
       departureTimeEstimated |-> T_next0010frac,
       location |-> [name |-> "Central"],
       transportation |-> [number |-> "T1", description |-> "North Shore",
                           destination |-> [name |-> "Hornsby"],
                           operator |-> [name |-> "Sydney Trains"]],
       properties |-> [WheelchairAccess |-> "true"]],
      [departureTimePlanned |-> T_next0010frac,
       location |-> [name |-> "Central"],
       transportation |-> [number |-> "T2", destination |-> [name |-> "Leppington"]],
       properties |-> [RealtimeTripId |-> "r"]],
      [departureTimePlanned |-> T_0920Z,
       location |-> [name |-> "Central"],
       transportation |-> [number |-> "T3", description |-> "Eastern Suburbs"]],
      [departureTimePlanned |-> T_prev2330,
       transportation |-> [number |-> "T8", operator |-> [name |-> "NSW Trains"]]],
      [departureTimePlanned |-> T_noseconds,
       transportation |-> [number |-> "T9"]],
      [departureTimePlanned |-> <<>>,
       transportation |-> [number |-> "L1"]],
      [location |-> [name |-> "Central"],
       transportation |-> [number |-> "M1"]] }

RECURSIVE SeqsUpTo(_, _)
\* The sequences over S of length at most n.
SeqsUpTo(S, n) ==
    IF n = 0 THEN {<<>>}
    ELSE LET shorter == SeqsUpTo(S, n - 1) IN
         shorter \cup {Append(s, x) : s \in {q \in shorter : Len(q) = n - 1}, x \in S}

StatusCodes == {200, 404, 500}

\* What requests.get gives back: it raises, or it returns a response with a
\* status code and, under 200, a body: one that response.json() fails to
\* decode ("invalid"), JSON null, or a JSON object.  The body of another
\* status is not read.
Responses(bodies) ==
    {[kind |-> "exception"]}
    \cup {[kind |-> "http", status_code |-> c, json |-> j] :
            c \in StatusCodes, j \in {"invalid", "null"}}
    \cup {[kind |-> "http", status_code |-> 200, json |-> "object", data |-> b] :
            b \in bodies}

DepartureBodies ==
    {[version |-> "10.2.1.42"]}
    \cup {[version |-> "10.2.1.42", stopEvents |-> s] :
            s \in SeqsUpTo(SampleEvents, MaxEvents)}

\* The wall clock readings (UTC): late on 2 November, and mid-morning and
\* late on 3 November 2026.
ClockSamples ==
    { [day |-> DaysFromCivil(2026, 11, 2), sec |-> 23 * 3600 + 59 * 60 + 50],
      [day |-> DaysFromCivil(2026, 11, 3), sec |-> 9 * 3600 + 5 * 60] }

TzOffsets == {0, 660}

Date_ok == Str(Chars(<<0, 3>>) \o <<"-">> \o Chars(<<1, 1>>) \o <<"-">>
               \o Chars(<<2, 0, 2, 6>>))

Date_slashes == Str(Chars(<<2, 0, 2, 6>>) \o <<"/">> \o Chars(<<1, 1>>) \o <<"/">>
                    \o Chars(<<0, 3>>))

Date_two_parts == Str(Chars(<<1, 1>>) \o <<"-">> \o Chars(<<2, 0, 2, 6>>))

Time_0900 == Str(Chars(<<0, 9>>) \o <<":">> \o Chars(<<0, 0>>))

Time_hour_only == Str(Chars(<<9>>))

Time_2500 == Str(Chars(<<2, 5>>) \o <<":">> \o Chars(<<0, 0>>))

Time_letters == Str(<<"a", "b", ":", "c", "d">>)

DateArgs == {None, Date_ok, Date_slashes, Date_two_parts}

TimeArgs == {None, Time_0900, Time_hour_only, Time_2500, Time_letters}

\* The argument lists of get_departure_monitor that are tried: every time
\* and every max_results without a date, and every date and time with the
\* default max_results = 1 (line 146).
DepartureArgs ==
    {[date |-> None, time |-> tm, max_results |-> n] :
        tm \in {None, Time_0900, Time_2500, Time_letters}, n \in (-1)..MaxResultsBound}
    \cup {[date |-> d, time |-> tm, max_results |-> 1] : d \in DateArgs, tm \in TimeArgs}

\* The arguments of find_transport_stops that are tried.
StopsArgs ==
    {[location_coord |-> "151.206290:-33.884080:EPSG:4326", stop_type |-> "BUS_POINT",
      radius |-> 100]}

\* The decoded bodies of the stop finder and of the alerts: the tools hand
\* them on as they are.
PlainBodies == {[version |-> "10.2.1.42"], [version |-> "10.2.1.42", locations |-> <<>>]}

\* The arguments of plan_trip that are tried (those that the code reads
\* before the request).
TripArgs == {[date |-> d, time |-> tm] : d \in DateArgs, tm \in {None, Time_0900, Time_letters}}

Mode_Train == <<"T", "r", "a", "i", "n">>

Mode_FootPath == <<"F", "o", "o", "t", "P", "a", "t", "h">>

Sub_delays == <<"<", "p", ">", "D", "e", "l", "a", "y", "s", " ", "<", "b", ">", "e",
                "x", "p", "e", "c", "t", "e", "d", "<", "/", "b", ">", "<", "/", "p", ">">>

Sub_only_tags == <<"<", "b", "r", ">", " ", "<", "p", ">", "<", "/", "p", ">">>

Sub_lift == <<" ", "L", "i", "f", "t", " ", "o", "u", "t", " ">>

Sub_open == <<"a", " ", "<", " ", "b">>

Leg_train ==
    [origin |-> [name |-> "Central", departureTimePlanned |-> T_0850Z,
                 departureTimeEstimated |-> T_0850Z],
     destination |-> [name |-> "Town Hall", arrivalTimePlanned |-> T_0920Z],
     transportation |-> [product |-> [name |-> Mode_Train, class |-> 1], number |-> "T1",
                         destination |-> [name |-> "Hornsby"],
                         operator |-> [name |-> "Sydney Trains"]],
     duration |-> 1830,
     isRealtimeControlled |-> TRUE,
     stopSequence |-> <<"Central", "Museum", "Town Hall">>,
     infos |-> <<[subtitle |-> Sub_delays], [subtitle |-> Sub_only_tags],
                 [subtitle |-> Sub_lift], [subtitle |-> Sub_open],
                 [subtitle |-> Sub_delays]>>]

Mode_Walking == <<"W", "a", "l", "k", "i", "n", "g">>

Mode_Bus == <<"B", "u", "s">>

Sub_empty_tag == <<"x", "<", ">", "y">>

\* A timestamp at the end of the range of datetime.
T_9999 == Iso(9999, 12, 31, 23, 59, 59) \o <<"Z">>

\* A walk by its product name alone, with fields of a transit leg.
Leg_walk ==
    [origin |-> [name |-> "Town Hall", departureTimePlanned |-> T_0920Z],
     destination |-> [name |-> "QVB", arrivalTimePlanned |-> T_noseconds,
                      arrivalTimeEstimated |-> <<>>],
     transportation |-> [product |-> [name |-> Mode_FootPath], number |-> "W",
                         destination |-> [name |-> "QVB"],
                         operator |-> [name |-> "Sydney Trains"]],
     duration |-> 150,
     distance |-> 180,
     isRealtimeControlled |-> TRUE,
     stopSequence |-> <<"Town Hall", "Arcade", "QVB">>,
     infos |-> <<[subtitle |-> Sub_empty_tag], [subtitle |-> Sub_lift]>>]

\* A transfer by its product class, without a departure time.
Leg_transfer ==
    [origin |-> [name |-> "Central"],
     destination |-> [name |-> "Central, Platform 16", arrivalTimePlanned |-> T_0850Z],
     transportation |-> [product |-> [name |-> Mode_Walking, class |-> 99]],
     duration |-> 90]

\* A leg without transportation.
Leg_plain ==
    [origin |-> [name |-> "QVB", departureTimePlanned |-> T_0920Z],
     destination |-> [name |-> "York St", arrivalTimePlanned |-> T_next0010frac],
     duration |-> 30,
     distance |-> 0]

\* A bus with two stops, no line number and no alert that survives.
Leg_bus ==
    [origin |-> [name |-> "York St", departureTimePlanned |-> T_0920Z],
     destination |-> [name |-> "Wynyard", arrivalTimePlanned |-> T_next0010frac],
     transportation |-> [product |-> [name |-> Mode_Bus, class |-> 5], number |-> ""],
     duration |-> 29,
     stopSequence |-> <<"York St", "Wynyard">>,
     infos |-> <<[subtitle |-> Sub_only_tags], [url |-> "u"]>>]

\* A leg whose estimated arrival is at the end of the range of datetime.
Leg_far ==
    [origin |-> [name |-> "Central", departureTimePlanned |-> T_0850Z],
     destination |-> [name |-> "Town Hall", arrivalTimePlanned |-> T_0920Z,
                      arrivalTimeEstimated |-> T_9999],
     transportation |-> [product |-> [name |-> Mode_Train, class |-> 1], number |-> "T1"],
     duration |-> 1800]

\* The journeys upstream may send.
SampleJourneys ==
    { [legs |-> <<Leg_train>>],
      [legs |-> <<Leg_train, Leg_walk>>],
      [legs |-> <<Leg_transfer, Leg_plain, Leg_bus>>],
      [legs |-> <<Leg_far>>],
      [legs |-> <<>>],
      [rating |-> 0] }

MaxJourneys == 2

\* The decoded bodies of the trip planner.
TripBodies ==
    { [version |-> "10.2.1.42"],
      [error |-> [message |-> "stop not found"]],
      [error |-> [code |-> 404], journeys |-> <<[legs |-> <<Leg_walk>>]>>],
      [systemMessages |-> [t |-> "list", items |-> <<[text |-> "notice"]>>]],
      [systemMessages |-> [t |-> "dict", items |-> <<[code |-> -4050]>>]] }
    \cup {[journeys |-> js] : js \in SeqsUpTo(SampleJourneys, MaxJourneys)}
    \cup {[journeys |-> js,
           systemMessages |-> [t |-> "list", items |-> <<[text |-> "notice"], [code |-> 1]>>]] :
            js \in SeqsUpTo(SampleJourneys, MaxJourneys)}

\* strftime('%d-%m-%Y') of a local reading (line 100).
strftime_dmY(l) ==
    LET c == CivilFromDays(l.day) IN
    Pad2(c.d) \o <<"-">> \o Pad2(c.m) \o <<"-">> \o Pad4(c.y)

---------------------------------------------------------------------------
(* get_departure_monitor: from the call to requests.get (lines 174-228)    *)

\* strftime('%Y%m%d') of a local reading.
strftime_Ymd(l) ==
    LET c == CivilFromDays(l.day) IN Pad4(c.y) \o Pad2(c.m) \o Pad2(c.d)

\* strftime('%H%M') of a local reading.
strftime_HM(l) == Pad2(l.sec \div 3600) \o Pad2((l.sec % 3600) \div 60)

\* strftime('%Y-%m-%d %H:%M:%S') of a local reading.
strftime_full(l) ==
    LET c == CivilFromDays(l.day) IN
    Pad4(c.y) \o <<"-">> \o Pad2(c.m) \o <<"-">> \o Pad2(c.d) \o <<" ">>
    \o Pad2(l.sec \div 3600) \o <<":">> \o Pad2((l.sec % 3600) \div 60)
    \o <<":">> \o Pad2(l.sec % 60)

\* Lines 178-183 and 382-386: the date argument as YYYYMMDD.  Unpacking
\* date.split('-') into day, month, year raises ValueError unless there are
\* exactly three parts.
itd_date_of(date, local_now) ==
    IF IsNone(date) THEN [ok |-> TRUE, v |-> strftime_Ymd(local_now)]
    ELSE LET parts == split(date.s, "-") IN
         IF Len(parts) = 3
         THEN [ok |-> TRUE, v |-> parts[3] \o parts[2] \o parts[1]]
         ELSE [ok |-> FALSE, exc |-> "ValueError"]

\* Lines 186-190 and 389-392: the time argument as HHMM.
itd_time_of(time, local_now) ==
    IF IsNone(time) THEN strftime_HM(local_now) ELSE replace_drop(time.s, ":")

\* Lines 193-202: today's local date at the given hour and minute.  int()
\* and datetime.replace() raise ValueError on anything else.
target_time_of(time, local_now, offset) ==
    IF IsNone(time) THEN [ok |-> TRUE, v |-> None]
    ELSE LET time_parts == split(time.s, ":")
             hour       == py_int(time_parts[1])
             minute     == IF Len(time_parts) > 1 THEN py_int(time_parts[2])
                           ELSE [ok |-> TRUE, v |-> 0]
         IN  IF hour.ok /\ minute.ok /\ hour.v \in 0..23 /\ minute.v \in 0..59
             THEN [ok |-> TRUE,
                   v |-> [t |-> "datetime",
                          dt |-> from_local([day |-> local_now.day,
                                             sec |-> hour.v * 3600 + minute.v * 60],
                                            offset)]]
             ELSE [ok |-> FALSE, exc |-> "ValueError"]

\* Line 218: the number of records asked of upstream.
request_limit(max_results) == Max(20, max_results * 2)

---------------------------------------------------------------------------
(* get_departure_monitor: from the response to the return (lines 235-326)  *)

\* Lines 239-242: the stop events left in data before any filtering.
limit_stop_events(data, max_results) ==
    IF "stopEvents" \in DOMAIN data /\ Len(data.stopEvents) > max_results
    THEN PySlice(data.stopEvents, max_results)
    ELSE Get(data, "stopEvents", <<>>)

\* Lines 256-269: the UTC instant of a stop event, when it has one.
parse_stop(stop) ==
    LET departure_time == Get(stop, "departureTimePlanned", <<>>) IN
    IF departure_time = <<>> THEN [ok |-> FALSE]
    ELSE parse_departure(departure_time)

\* The same, worked out once for each of the sample events.
ParsedSampleEvents == [e \in SampleEvents |-> parse_stop(e)]

departure_dt_utc(stop) ==
    IF stop \in SampleEvents THEN ParsedSampleEvents[stop] ELSE parse_stop(stop)

\* Lines 255-283: does the loop append this stop to processed_stops?
keeps_stop_strictly_after(stop, today, offset) ==
    LET p == departure_dt_utc(stop) IN
    /\ p.ok
    /\ date_str_ge(strftime_date(astimezone(p.dt, offset)), today)
    /\ strftime_date(astimezone(p.dt, offset)) # today

keeps_stop(stop, today, offset) ==
    LET p == departure_dt_utc(stop) IN
    /\ p.ok
    /\ date_str_ge(strftime_date(astimezone(p.dt, offset)), today)

\* The loop leaving at the first stop that does not parse.
filter_stops_leaving_at_bad(stops, n, today, offset) ==
    LET bad  == {i \in 1..n : ~departure_dt_utc(stops[i]).ok}
        m    == IF bad = {} THEN n ELSE (CHOOSE i \in bad : \A j \in bad : i <= j) - 1
        kept == {i \in 1..m : keeps_stop(stops[i], today, offset)}
    IN  Ascending(kept)

RECURSIVE filter_stops(_, _, _, _)
\* The positions, in order, of the first n stops that the loop keeps.
filter_stops(stops, n, today, offset) ==
    IF n = 0 THEN <<>>
    ELSE filter_stops(stops, n - 1, today, offset)
         \o (IF keeps_stop(stops[n], today, offset) THEN <<n>> ELSE <<>>)

\* Line 292: seconds between the departure and the target, unsigned.
time_diff(stop, target) ==
    Abs(total_seconds(departure_dt_utc(stop).dt, target.dt))

\* Lines 296 and 299: the sort key of a stop, and the order of two keys.
sort_key(stop, target) ==
    IF IsNone(target) THEN departure_dt_utc(stop).dt ELSE time_diff(stop, target)

key_lt(a, b, target) == IF IsNone(target) THEN dt_lt(a, b) ELSE a < b

RECURSIVE insert_stable(_, _, _, _)
\* x put into a sorted list behind every entry whose key is not greater.
insert_stable(sorted, x, stops, target) ==
    IF sorted = <<>> THEN <<x>>
    ELSE IF key_lt(sort_key(stops[x], target), sort_key(stops[Head(sorted)], target),
                   target)
         THEN <<x>> \o sorted
         ELSE <<Head(sorted)>> \o insert_stable(Tail(sorted), x, stops, target)

list_sort_not_sorting(positions, stops, target) == positions

RECURSIVE list_sort(_, _, _)
\* list.sort(key=...): ascending and stable.
list_sort(positions, stops, target) ==
    IF positions = <<>> THEN <<>>
    ELSE insert_stable(list_sort(SubSeq(positions, 1, Len(positions) - 1), stops, target),
                       positions[Len(positions)], stops, target)

\* Lines 301-304.
limit_results(processed, max_results) ==
    IF max_results > 0 /\ Len(processed) > max_results
    THEN PySlice(processed, max_results)
    ELSE processed

\* A variant that keeps the ranking field and defaults the accessibility
\* flag to the empty string.
concise_stop_keeping_derived(stop, offset) ==
    [stop_name            |-> Get2(stop, "location", "name", ""),
     route_number         |-> Get2(stop, "transportation", "number", ""),
     route_name           |-> Get2(stop, "transportation", "description", ""),
     destination          |-> Get3(stop, "transportation", "destination", "name", ""),
     operator             |-> Get3(stop, "transportation", "operator", "name", ""),
     planned_departure    |-> Get(stop, "departureTimePlanned", <<>>),
     estimated_departure  |-> Get(stop, "departureTimeEstimated", <<>>),
     local_departure_time |-> strftime_full(astimezone(departure_dt_utc(stop).dt, offset)),
     departure_dt_local   |-> astimezone(departure_dt_utc(stop).dt, offset),
     wheelchair_access    |-> Get2(stop, "properties", "WheelchairAccess", "")]

\* Lines 308-324: the concise record of one stop.
concise_stop(stop, offset) ==
    [stop_name            |-> Get2(stop, "location", "name", ""),
     route_number         |-> Get2(stop, "transportation", "number", ""),
     route_name           |-> Get2(stop, "transportation", "description", ""),
     destination          |-> Get3(stop, "transportation", "destination", "name", ""),
     operator             |-> Get3(stop, "transportation", "operator", "name", ""),
     planned_departure    |-> Get(stop, "departureTimePlanned", <<>>),
     estimated_departure  |-> Get(stop, "departureTimeEstimated", <<>>),
     local_departure_time |-> strftime_full(astimezone(departure_dt_utc(stop).dt, offset)),
     wheelchair_access    |-> Get2(stop, "properties", "WheelchairAccess", "false")]

\* Lines 245-304: processed_stops when the loop at 308 starts.
ranked_stops(data, max_results, target, today, offset) ==
    LET stops == limit_stop_events(data, max_results) IN
    limit_results(list_sort(filter_stops(stops, Len(stops), today, offset),
                            stops, target),
                  max_results)

\* A variant that summarises the stops in the opposite order.
concise_stops_reversed(data, processed, offset) ==
    [i \in DOMAIN processed |->
        concise_stop(data.stopEvents[processed[Len(processed) + 1 - i]], offset)]

\* The records of the stops at the given positions.
concise_stops(data, processed, offset) ==
    [i \in DOMAIN processed |-> concise_stop(data.stopEvents[processed[i]], offset)]

---------------------------------------------------------------------------
(* _parse_api_time, _format_api_time and _format_journeys (lines 463-587)  *)

UpperChars == <<"A", "B", "C", "D", "E", "F", "G", "H", "I", "J", "K", "L", "M",
                "N", "O", "P", "Q", "R", "S", "T", "U", "V", "W", "X", "Y", "Z">>

LowerChars == <<"a", "b", "c", "d", "e", "f", "g", "h", "i", "j", "k", "l", "m",
                "n", "o", "p", "q", "r", "s", "t", "u", "v", "w", "x", "y", "z">>

\* str.lower()
lower(s) ==
    [i \in DOMAIN s |->
        IF \E k \in DOMAIN UpperChars : UpperChars[k] = s[i]
        THEN LowerChars[CHOOSE k \in DOMAIN UpperChars : UpperChars[k] = s[i]]
        ELSE s[i]]

RECURSIVE strip(_)
\* str.strip()
strip(s) ==
    IF s = <<>> THEN <<>>
    ELSE IF Head(s) = " " THEN strip(Tail(s))
    ELSE IF s[Len(s)] = " " THEN strip(SubSeq(s, 1, Len(s) - 1))
    ELSE s

RECURSIVE strip_tags(_)
\* re.sub(r'<[^>]+>', '', s): a '<', one or more characters other than
\* '>', and the '>' that follows them, are removed, leftmost first.
strip_tags(s) ==
    IF s = <<>> THEN <<>>
    ELSE LET close == Find(Tail(s), ">") IN
         IF Head(s) = "<" /\ close >= 2
         THEN strip_tags(SubSeq(s, close + 2, Len(s)))
         ELSE <<Head(s)>> \o strip_tags(Tail(s))

\* round(n / 60): to the nearest whole number, a half going to the even one.
round_div_60(n) ==
    LET q == n \div 60
        r == n % 60
    IN  IF r < 30 THEN q
        ELSE IF r > 30 THEN q + 1
        ELSE IF q % 2 = 0 THEN q ELSE q + 1

\* d.get(k) of a string-valued key: None when the key is missing.
GetStr(d, k) == IF k \in DOMAIN d THEN Str(d[k]) ELSE None

\* d.get(k1, {}).get(k2)
GetStr2(d, k1, k2) == IF k1 \in DOMAIN d THEN GetStr(d[k1], k2) ELSE None

\* `not time_str`: None or the empty string.
Falsy(v) == IsNone(v) \/ v.s = <<>>

\* Lines 566-578.
parse_api_time(time_str) ==
    IF Falsy(time_str) THEN [ok |-> FALSE] ELSE parse_departure(time_str.s)

\* strftime('%Y-%m-%d %H:%M') of a local reading.
strftime_minutes(l) == SubSeq(strftime_full(l), 1, 16)

\* Lines 581-587.
format_api_time(time_str, offset) ==
    LET parsed == parse_api_time(time_str) IN
    IF ~parsed.ok THEN (IF Falsy(time_str) THEN <<>> ELSE time_str.s)
    ELSE strftime_minutes(astimezone(parsed.dt, offset))

\* The days of datetime.min and datetime.max.
datetime_min_day == DaysFromCivil(1, 1, 1)

datetime_max_day == DaysFromCivil(9999, 12, 31)

\* astimezone() raises OverflowError when the local reading of a parsed
\* time falls outside the range of datetime.
overflows_when_local(parsed, offset) ==
    /\ parsed.ok
    /\ astimezone(parsed.dt, offset).day \notin datetime_min_day..datetime_max_day

\* Line 586 raises.
format_api_time_raises(time_str, offset) ==
    overflows_when_local(parse_api_time(time_str), offset)

\* A variant that classifies by the product name alone, as it is spelled.
is_walking_by_exact_name(product) ==
    Get(product, "name", <<>>)
        \in {<<"W", "a", "l", "k", "i", "n", "g">>,
             <<"F", "o", "o", "t", "p", "a", "t", "h">>, <<>>}

\* Lines 481-483.
is_walking(product) ==
    \/ "class" \in DOMAIN product /\ product.class >= 99
    \/ lower(Get(product, "name", <<>>))
         \in {lower(<<"w", "a", "l", "k", "i", "n", "g">>),
              lower(<<"f", "o", "o", "t", "p", "a", "t", "h">>), <<>>}

Walking == <<"W", "a", "l", "k", "i", "n", "g">>

\* A field that is set only under a condition.
Field(cond, k, v) == IF cond THEN (k :> v) ELSE <<>>

RECURSIVE clean_alerts_keeping_empty(_)
\* A variant that keeps the subtitles that are empty after stripping.
clean_alerts_keeping_empty(infos) ==
    IF infos = <<>> THEN <<>>
    ELSE <<strip(strip_tags(Get(Head(infos), "subtitle", <<>>)))>>
         \o clean_alerts_keeping_empty(Tail(infos))

RECURSIVE clean_alerts(_)
\* Lines 527-534: the subtitles without their tags, the empty ones left out.
clean_alerts(infos) ==
    IF infos = <<>> THEN <<>>
    ELSE LET subtitle == Get(Head(infos), "subtitle", <<>>)
             clean    == IF subtitle # <<>> THEN strip(strip_tags(subtitle)) ELSE <<>>
         IN  (IF clean # <<>> THEN <<clean>> ELSE <<>>) \o clean_alerts(Tail(infos))

\* Lines 487-489 and 494-495: the timestamps of a leg.
leg_times(leg) ==
    [departure_planned   |-> GetStr2(leg, "origin", "departureTimePlanned"),
     arrival_planned     |-> GetStr2(leg, "destination", "arrivalTimePlanned"),
     departure_estimated |-> GetStr2(leg, "origin", "departureTimeEstimated"),
     arrival_estimated   |-> GetStr2(leg, "destination", "arrivalTimeEstimated")]

\* Lines 496-499: the estimates are formatted only when upstream sends them.
times_given(times) ==
    {"departure_planned", "arrival_planned"}
       \cup {k \in {"departure_estimated", "arrival_estimated"} : ~Falsy(times[k])}

\* Formatting a time of the leg raises (lines 487-499, outside any try).
format_leg_raises(leg, offset) ==
    \E k \in times_given(leg_times(leg)) : format_api_time_raises(leg_times(leg)[k], offset)

\* Lines 475-538: one formatted leg.
format_leg(leg, offset) ==
    LET transport == Get(leg, "transportation", [none |-> TRUE])
        product   == Get(transport, "product", [none |-> TRUE])
        stop_seq  == Get(leg, "stopSequence", <<>>)
        distance  == Get(leg, "distance", 0)
    IN  [origin           |-> Get2(leg, "origin", "name", ""),
         destination      |-> Get2(leg, "destination", "name", ""),
         duration_minutes |-> round_div_60(Get(leg, "duration", 0))]
        @@ [k \in times_given(leg_times(leg)) |-> format_api_time(leg_times(leg)[k], offset)]
        @@ (IF is_walking(product)
            THEN ("mode" :> Walking) @@ Field(distance # 0, "distance_metres", distance)
            ELSE ("mode" :> Get(product, "name", <<>>))
                 @@ Field(Get(transport, "number", "") # "", "line",
                          Get(transport, "number", ""))
                 @@ Field(Get2(transport, "destination", "name", "") # "", "towards",
                          Get2(transport, "destination", "name", ""))
                 @@ Field(Get2(transport, "operator", "name", "") # "", "operator",
                          Get2(transport, "operator", "name", ""))
                 @@ Field(Get(leg, "isRealtimeControlled", FALSE), "realtime", TRUE)
                 @@ Field(Len(stop_seq) > 2, "num_stops", Len(stop_seq) - 1))
        @@ Field(clean_alerts(Get(leg, "infos", <<>>)) # <<>>, "alerts",
                 PySlice(clean_alerts(Get(leg, "infos", <<>>)), 3))

\* A variant that gives the duration and the ends whenever the departure
\* parses, and an end only if it parses.
journey_times_of_departure_alone(ends, parsed, offset) ==
    IF ~Falsy(ends.depart) /\ parsed.depart.ok
    THEN ("total_duration_minutes" :> 0)
         @@ [k \in {e \in DOMAIN ends : parsed[e].ok} |-> format_api_time(ends[k], offset)]
    ELSE <<>>

\* Lines 549-559: the duration and the two ends of a journey, given only
\* when both timestamps are there and parse.
journey_times(ends, parsed, offset) ==
    IF \A k \in DOMAIN ends : ~Falsy(ends[k]) /\ parsed[k].ok
    THEN ("total_duration_minutes" :>
              round_div_60(total_seconds(parsed.arrive.dt, parsed.depart.dt)))
         @@ [k \in DOMAIN ends |-> format_api_time(ends[k], offset)]
    ELSE <<>>

\* The timestamps a journey starts and ends with (lines 541-542).
journey_ends(legs) ==
    [depart |-> GetStr2(legs[1], "origin", "departureTimePlanned"),
     arrive |-> GetStr2(legs[Len(legs)], "destination", "arrivalTimePlanned")]

\* Lines 540-561: the summary of a journey that has legs.
journey_summary(legs, offset) ==
    ("legs" :> [i \in DOMAIN legs |-> format_leg(legs[i], offset)])
    @@ journey_times(journey_ends(legs),
                     [k \in {"depart", "arrive"} |-> parse_api_time(journey_ends(legs)[k])],
                     offset)

RECURSIVE format_journeys_keeping_empty(_, _)
\* A variant that emits a journey without legs as a journey of no legs.
format_journeys_keeping_empty(journeys, offset) ==
    IF journeys = <<>> THEN <<>>
    ELSE LET legs == Get(Head(journeys), "legs", <<>>) IN
         (IF legs = <<>> THEN <<("legs" :> <<>>)>> ELSE <<journey_summary(legs, offset)>>)
         \o format_journeys_keeping_empty(Tail(journeys), offset)

RECURSIVE format_journeys(_, _)
\* Lines 463-563.
format_journeys(journeys, offset) ==
    IF journeys = <<>> THEN <<>>
    ELSE LET legs == Get(Head(journeys), "legs", <<>>) IN
         (IF legs = <<>> THEN <<>> ELSE <<journey_summary(legs, offset)>>)
         \o format_journeys(Tail(journeys), offset)

\* _format_journeys raises: formatting a time of a leg does (the journey
\* summary at 549-561 has its own try).
format_journeys_raises(journeys, offset) ==
    \E i \in DOMAIN journeys :
        \E l \in DOMAIN Get(journeys[i], "legs", <<>>) :
            format_leg_raises(journeys[i].legs[l], offset)

---------------------------------------------------------------------------
(* What each tool returns for a response (the try blocks)                  *)

\* A variant in which the exception of requests.get reaches the caller.
response_json_or_raise(r) ==
    IF r.kind = "exception" THEN Raised("RequestException")
    ELSE IF r.status_code = 200
         THEN (IF r.json = "object" THEN Returned([t |-> "json", data |-> r.data])
               ELSE Returned(None))
         ELSE Returned(None)

\* Lines 57-69 and 130-142: the decoded body under 200, None otherwise;
\* any exception, of requests.get or of response.json, gives None.
response_json_or_none(r) ==
    IF r.kind = "exception" THEN Returned(None)
    ELSE IF r.status_code = 200
         THEN (IF r.json = "object" THEN Returned([t |-> "json", data |-> r.data])
               ELSE Returned(None))
         ELSE Returned(None)

\* Lines 434-441.
system_messages_of(data) ==
    IF "systemMessages" \in DOMAIN data /\ data.systemMessages.items # <<>>
    THEN LET msgs == data.systemMessages IN
         IF msgs.t = "list"
         THEN [t |-> "list",
               items |-> [i \in DOMAIN msgs.items |->
                            Get(msgs.items[i], "text",
                                [t |-> "str_of", v |-> msgs.items[i]])]]
         ELSE [t |-> "list", items |-> <<[t |-> "str_of", v |-> msgs]>>]
    ELSE None

\* Lines 451-454: the journeys alone, or with the system messages.
journeys_result(result_, system_messages) ==
    IF ~IsNone(system_messages)
    THEN [t |-> "dict", system_messages |-> system_messages.items, journeys |-> result_]
    ELSE [t |-> "list", items |-> result_]

\* Lines 443-447: what is returned when there is no journey.
no_journeys_result(system_messages) ==
    IF ~IsNone(system_messages)
    THEN [t |-> "dict", system_messages |-> system_messages.items]
    ELSE [t |-> "dict", message |-> "No journeys found for the given criteria."]

\* Lines 422-460.
plan_trip_result(r, offset) ==
    IF r.kind = "exception" THEN Returned(None)
    ELSE IF r.status_code # 200 THEN Returned(None)
    ELSE IF r.json # "object" THEN Returned(None)
    ELSE IF "error" \in DOMAIN r.data
    THEN Returned([t |-> "dict",
                   error |-> Get(r.data.error, "message", "Unknown API error")])
    ELSE IF Get(r.data, "journeys", <<>>) = <<>>
    THEN Returned(no_journeys_result(system_messages_of(r.data)))
    ELSE IF format_journeys_raises(r.data.journeys, offset) THEN Returned(None)
    ELSE Returned(journeys_result(format_journeys(r.data.journeys, offset),
                                  system_messages_of(r.data)))

\* A variant in which an empty list of departures is reported as None.
departure_monitor_result_none_when_empty(r, max_results, target, today, offset) ==
    IF r.kind = "exception" THEN Returned(None)
    ELSE IF r.status_code # 200 THEN Returned(None)
    ELSE IF r.json # "object" THEN Returned(None)
    ELSE LET ranked == ranked_stops(r.data, max_results, target, today, offset) IN
         IF ranked = <<>> THEN Returned(None)
         ELSE Returned([t |-> "list", items |-> concise_stops(r.data, ranked, offset)])

\* Lines 230-333.
departure_monitor_result(r, max_results, target, today, offset) ==
    IF r.kind = "exception" THEN Returned(None)
    ELSE IF r.status_code # 200 THEN Returned(None)
    ELSE IF r.json # "object" THEN Returned(None)
    ELSE Returned([t |-> "list",
                   items |-> concise_stops(r.data,
                                           ranked_stops(r.data, max_results, target,
                                                        today, offset),
                                           offset)])

---------------------------------------------------------------------------
(* The tool calls                                                          *)

NowLocal == astimezone(clock, tz)

\* The part of the state that only get_departure_monitor writes.
departure_locals == <<target_time, today_date, processed_stops>>

Call_find_transport_stops ==
    /\ pc = "idle"
    /\ \E a \in StopsArgs :
         /\ args' = a
         /\ params' = [coord |-> a.location_coord, type_1 |-> a.stop_type,
                       radius_1 |-> a.radius]
    /\ tool' = "find_transport_stops"
    /\ now' = NowLocal
    /\ requests' = requests + 1
    /\ pc' = "waiting"
    /\ UNCHANGED <<tz, clock, response, result, departure_locals>>

Return_find_transport_stops ==
    /\ pc = "waiting"
    /\ tool = "find_transport_stops"
    /\ \E r \in Responses(PlainBodies) :
         /\ response' = r
         /\ result' = response_json_or_none(r)
    /\ pc' = "done"
    /\ UNCHANGED <<tool, args, tz, clock, now, requests, params, departure_locals>>

Call_get_transport_alerts ==
    /\ pc = "idle"
    /\ \E date \in DateArgs :
         /\ args' = [date |-> date]
         /\ params' = [filterDateValid |->
                         IF IsNone(date) THEN strftime_dmY(NowLocal) ELSE date.s]
    /\ tool' = "get_transport_alerts"
    /\ now' = NowLocal
    /\ requests' = requests + 1
    /\ pc' = "waiting"
    /\ UNCHANGED <<tz, clock, response, result, departure_locals>>

Return_get_transport_alerts ==
    /\ pc = "waiting"
    /\ tool = "get_transport_alerts"
    /\ \E r \in Responses(PlainBodies) :
         /\ response' = r
         /\ result' = response_json_or_none(r)
    /\ pc' = "done"
    /\ UNCHANGED <<tool, args, tz, clock, now, requests, params, departure_locals>>

Call_get_departure_monitor ==
    /\ pc = "idle"
    /\ \E a \in DepartureArgs :
         LET itd_date == itd_date_of(a.date, NowLocal)
             target   == target_time_of(a.time, NowLocal, tz)
         IN  /\ args' = a
             /\ IF itd_date.ok /\ target.ok
                THEN /\ target_time' = target.v
                     /\ params' = [itdDate |-> itd_date.v,
                                   itdTime |-> itd_time_of(a.time, NowLocal),
                                   limit |-> request_limit(a.max_results)]
                     /\ requests' = requests + 1
                     /\ pc' = "waiting"
                     /\ UNCHANGED result
                ELSE /\ result' = Raised("ValueError")
                     /\ pc' = "done"
                     /\ UNCHANGED <<target_time, params, requests>>
    /\ tool' = "get_departure_monitor"
    /\ now' = NowLocal
    /\ UNCHANGED <<tz, clock, response, today_date, processed_stops>>

Return_get_departure_monitor ==
    /\ pc = "waiting"
    /\ tool = "get_departure_monitor"
    /\ \E r \in Responses(DepartureBodies) :
         LET today == strftime_date(NowLocal) IN
         /\ response' = r
         /\ result' = departure_monitor_result(r, args.max_results, target_time,
                                               today, tz)
         /\ IF r.kind = "http" /\ r.status_code = 200 /\ r.json = "object"
            THEN /\ today_date' = today
                 /\ processed_stops' = ranked_stops(r.data, args.max_results,
                                                    target_time, today, tz)
            ELSE UNCHANGED <<today_date, processed_stops>>
    /\ pc' = "done"
    /\ UNCHANGED <<tool, args, tz, clock, now, target_time, requests, params>>

Call_plan_trip ==
    /\ pc = "idle"
    /\ \E a \in TripArgs :
         LET itd_date == itd_date_of(a.date, NowLocal) IN
         /\ args' = a
         /\ IF itd_date.ok
            THEN /\ params' = [itdDate |-> itd_date.v,
                               itdTime |-> itd_time_of(a.time, NowLocal)]
                 /\ requests' = requests + 1
                 /\ pc' = "waiting"
                 /\ UNCHANGED result
            ELSE /\ result' = Raised("ValueError")
                 /\ pc' = "done"
                 /\ UNCHANGED <<params, requests>>
    /\ tool' = "plan_trip"
    /\ now' = NowLocal
    /\ UNCHANGED <<tz, clock, response, departure_locals>>

Return_plan_trip ==
    /\ pc = "waiting"
    /\ tool = "plan_trip"
    /\ \E r \in Responses(TripBodies) :
         /\ response' = r
         /\ result' = plan_trip_result(r, tz)
    /\ pc' = "done"
    /\ UNCHANGED <<tool, args, tz, clock, now, requests, params, departure_locals>>

\* The wall clock moves on while the request is in flight.
Tick ==
    /\ pc = "waiting"
    /\ \E later \in ClockSamples : dt_lt(clock, later) /\ clock' = later
    /\ UNCHANGED <<pc, tool, args, tz, now, target_time, requests, response, params,
                   today_date, processed_stops, result>>

\* The call is over; nothing of it is kept for the next one.
Finish ==
    /\ pc = "done"
    /\ pc' = "idle"
    /\ tool' = "none"
    /\ args' = [none |-> TRUE]
    /\ now' = [day |-> 0, sec |-> 0]
    /\ target_time' = None
    /\ requests' = 0
    /\ response' = [kind |-> "none"]
    /\ params' = [none |-> TRUE]
    /\ today_date' = <<0, 0, 0>>
    /\ processed_stops' = <<>>
    /\ result' = [kind |-> "none"]
    /\ UNCHANGED <<tz, clock>>

---------------------------------------------------------------------------
Init ==
    /\ pc = "idle"
    /\ tool = "none"
    /\ args = [none |-> TRUE]
    /\ tz \in TzOffsets
    /\ clock \in ClockSamples
    /\ now = [day |-> 0, sec |-> 0]
    /\ target_time = None
    /\ requests = 0
    /\ response = [kind |-> "none"]
    /\ params = [none |-> TRUE]
    /\ today_date = <<0, 0, 0>>
    /\ processed_stops = <<>>
    /\ result = [kind |-> "none"]

Next ==
    \/ Call_find_transport_stops
    \/ Return_find_transport_stops
    \/ Call_get_transport_alerts
    \/ Return_get_transport_alerts
    \/ Call_get_departure_monitor
    \/ Return_get_departure_monitor
    \/ Call_plan_trip
    \/ Return_plan_trip
    \/ Tick
    \/ Finish

Spec == Init /\ [][Next]_vars

---------------------------------------------------------------------------
(* What the claims speak of                                                *)

\* get_departure_monitor has returned and upstream had answered 200 with a
\* body that decodes.
Done200 ==
    /\ pc = "done"
    /\ tool = "get_departure_monitor"
    /\ response.kind = "http"
    /\ response.status_code = 200
    /\ response.json = "object"

\* All the stop events upstream sent.
Upstream == Get(response.data, "stopEvents", <<>>)

\* The returned list.
Items == result.value.items

\* The current local calendar date, as <<year, month, day>>.
Today == strftime_date(astimezone(clock, tz))

\* The planned departure of a stop event parses.
Parses(stop) ==
    /\ "departureTimePlanned" \in DOMAIN stop
    /\ stop.departureTimePlanned # <<>>
    /\ departure_dt_utc(stop).ok

\* The local reading of the planned departure of a stop event that parses.
LocalDeparture(stop) == astimezone(departure_dt_utc(stop).dt, tz)

DatedTodayOrLater(stop) == date_str_ge(strftime_date(LocalDeparture(stop)), Today)

\* The positions of the upstream stop events that survive the parse filter
\* and the date filter.
Survivors ==
    {i \in DOMAIN Upstream : Parses(Upstream[i]) /\ DatedTodayOrLater(Upstream[i])}

\* Today's local date (the day of the call) at the HH:MM of the time argument.
TargetLocal ==
    [day |-> now.day,
     sec |-> DecimalValue(SubSeq(args.time.s, 1, 2)) * 3600
             + DecimalValue(SubSeq(args.time.s, 4, 5)) * 60]

\* The ranking scalar of a surviving event when a time argument is given.
SecondsFromTarget(stop) == Abs(total_seconds(LocalDeparture(stop), TargetLocal))

\* scalar(a) < scalar(b) and scalar(a) = scalar(b) for surviving events.
ScalarLess(a, b) ==
    IF IsNone(args.time) THEN dt_lt(LocalDeparture(a), LocalDeparture(b))
    ELSE SecondsFromTarget(a) < SecondsFromTarget(b)

ScalarEqual(a, b) == ~ScalarLess(a, b) /\ ~ScalarLess(b, a)

\* The time argument is absent or of the form HH:MM.
TimeArgWellFormed ==
    \/ IsNone(args.time)
    \/ /\ Len(args.time.s) = 5
       /\ args.time.s[3] = ":"
       /\ AllDigits(SubSeq(args.time.s, 1, 2))
       /\ AllDigits(SubSeq(args.time.s, 4, 5))

\* The k-th returned record is built from the upstream event at position
\* processed_stops[k].
ItemsFollowProcessed ==
    /\ Len(Items) = Len(processed_stops)
    /\ \A k \in DOMAIN Items :
         /\ processed_stops[k] \in DOMAIN Upstream
         /\ Items[k].planned_departure
              = Get(Upstream[processed_stops[k]], "departureTimePlanned", <<>>)
         /\ Items[k].route_number
              = Get2(Upstream[processed_stops[k]], "transportation", "number", "")

---------------------------------------------------------------------------
(* C1: for max_results > 0 the result is the first max_results entries of  *)
(* the stable ascending sort of ALL surviving upstream events: it has      *)
(* min(max_results, number of survivors) entries, all of them survivors,   *)
(* and no survivor left out has a strictly smaller ranking scalar than one *)
(* that is returned.                                                       *)
C1_RanksAllSurvivors ==
    (Done200 /\ args.max_results > 0 /\ TimeArgWellFormed) =>
        /\ ItemsFollowProcessed
        /\ Len(processed_stops) = Min(args.max_results, Cardinality(Survivors))
        /\ Range(processed_stops) \subseteq Survivors
        /\ \A i \in Survivors \ Range(processed_stops), j \in Range(processed_stops) :
             ~ScalarLess(Upstream[i], Upstream[j])

(* C2: for max_results <= 0 nothing is truncated: as many departures are   *)
(* returned as upstream events survive the parse and the date filter.      *)
C2_NoTruncationWhenNotPositive ==
    (Done200 /\ args.max_results <= 0) => Len(Items) = Cardinality(Survivors)

(* C3: for max_results > 0 the returned list never has more than           *)
(* max_results entries.                                                    *)
C3_AtMostMaxResults ==
    (Done200 /\ args.max_results > 0) => Len(Items) <= args.max_results

\* More events survive than may be returned, and max_results are returned.
C3_Witness ==
    /\ Done200
    /\ args.max_results > 0
    /\ Cardinality(Survivors) > args.max_results
    /\ Len(Items) = args.max_results

(* C4: the returned list is in ascending order of ranking scalar (seconds  *)
(* from today's local date at the given HH:MM, or the departure instant    *)
(* when no time is given), and events of equal scalar keep their upstream  *)
(* order.                                                                  *)
C4_SortedStable ==
    (Done200 /\ TimeArgWellFormed) =>
        /\ ItemsFollowProcessed
        /\ \A a, b \in DOMAIN processed_stops :
             a < b =>
               /\ ~ScalarLess(Upstream[processed_stops[b]], Upstream[processed_stops[a]])
               /\ ScalarEqual(Upstream[processed_stops[a]], Upstream[processed_stops[b]])
                    => processed_stops[a] < processed_stops[b]

\* The spec's scenario: target 09:00, upstream sends 09:20 then 08:50; the
\* scalars are 1200 and 600 and 08:50 is returned first.
C4_Witness ==
    /\ Done200
    /\ args.time = Time_0900
    /\ tz = 0
    /\ Len(Upstream) = 2
    /\ Get(Upstream[1], "departureTimePlanned", <<>>) = T_0920Z
    /\ Get(Upstream[2], "departureTimePlanned", <<>>) = T_0850Z
    /\ SecondsFromTarget(Upstream[1]) = 1200
    /\ SecondsFromTarget(Upstream[2]) = 600
    /\ processed_stops = <<2, 1>>
    /\ Items[1].planned_departure = T_0850Z
    /\ Items[2].planned_departure = T_0920Z

---------------------------------------------------------------------------
(* Failures of the upstream request                                        *)

\* A tool has finished a call whose request was sent.
Answered == pc = "done" /\ response.kind # "none"

\* The request raised, or upstream answered with a status other than 200.
RequestFailed ==
    \/ response.kind = "exception"
    \/ response.kind = "http" /\ response.status_code # 200

\* Upstream answered 200 with a body that is no JSON object: it cannot be
\* decoded, or it decodes to null.
BodyUnusable ==
    /\ response.kind = "http"
    /\ response.status_code = 200
    /\ response.json # "object"

Tools == {"find_transport_stops", "get_transport_alerts", "get_departure_monitor",
          "plan_trip"}

\* C7: for each of the four tools, a non-200 upstream response and an
\* exception raised by the HTTP request end alike: the tool returns None
\* and raises nothing to its caller.
C7_FailureReturnsNone ==
    (Answered /\ tool \in Tools /\ RequestFailed) => result = Returned(None)

\* plan_trip has returned None after its request raised.
C7_Witness ==
    /\ Answered
    /\ tool = "plan_trip"
    /\ response.kind = "exception"
    /\ result = Returned(None)

C9_ExactlyOneGet ==
    (pc = "done" /\ tool \in Tools) => requests = 1

\* C10: get_departure_monitor and plan_trip return a value (a result or
\* None) for every date argument, every time argument and every upstream
\* response, and never raise an exception to their caller.
C10_NeverRaises ==
    (pc = "done" /\ tool \in {"get_departure_monitor", "plan_trip"})
        => result.kind = "return"

---------------------------------------------------------------------------
(* The concise records of get_departure_monitor                            *)

\* The upstream event that the k-th ranked entry stands for.
Ranked(k) == Upstream[processed_stops[k]]

\* C11: the summarizing step keeps order and length: the returned list has
\* exactly one record per ranked event, and the i-th record is built from
\* the i-th ranked event (its planned_departure is that event's
\* departureTimePlanned, its route_number that event's number); nothing is
\* re-sorted, dropped or duplicated.
C11_SummaryFollowsRanked ==
    Done200 =>
        /\ Len(Items) = Len(processed_stops)
        /\ \A k \in DOMAIN processed_stops :
             /\ processed_stops[k] \in DOMAIN Upstream
             /\ Items[k].planned_departure = Get(Ranked(k), "departureTimePlanned", <<>>)
             /\ Items[k].route_number = Get2(Ranked(k), "transportation", "number", "")

\* Two records are returned for events that the sort has put in the
\* opposite of their upstream order.
C11_Witness ==
    /\ Done200
    /\ Len(Items) >= 2
    /\ processed_stops[1] > processed_stops[2]
    /\ Items[1].route_number # Items[2].route_number
    /\ Items[1].route_number = Get2(Ranked(1), "transportation", "number", "")

NineKeys == {"stop_name", "route_number", "route_name", "destination", "operator",
             "planned_departure", "estimated_departure", "local_departure_time",
             "wheelchair_access"}

\* The object under key k1 of d lacks key k2, or d lacks k1.
Lacks2(d, k1, k2) == k1 \notin DOMAIN d \/ k2 \notin DOMAIN d[k1]

\* The object at d[k1][k2] lacks key k3, or is not there.
Lacks3(d, k1, k2, k3) == Lacks2(d, k1, k2) \/ k3 \notin DOMAIN d[k1][k2]

\* C12: every returned record has exactly the nine keys and none of the
\* ranking fields; a field whose upstream value is missing is the empty
\* string, except wheelchair_access, which is "false" when the event has
\* no WheelchairAccess property.
C12_NineKeysWithDefaults ==
    Done200 =>
        \A k \in DOMAIN Items :
            /\ DOMAIN Items[k] = NineKeys
            /\ k \in DOMAIN processed_stops
            /\ Lacks2(Ranked(k), "location", "name") => Items[k].stop_name = ""
            /\ Lacks2(Ranked(k), "transportation", "number") => Items[k].route_number = ""
            /\ Lacks2(Ranked(k), "transportation", "description")
                 => Items[k].route_name = ""
            /\ Lacks3(Ranked(k), "transportation", "destination", "name")
                 => Items[k].destination = ""
            /\ Lacks3(Ranked(k), "transportation", "operator", "name")
                 => Items[k].operator = ""
            /\ "departureTimeEstimated" \notin DOMAIN Ranked(k)
                 => Items[k].estimated_departure = <<>>
            /\ Lacks2(Ranked(k), "properties", "WheelchairAccess")
                 => Items[k].wheelchair_access = "false"
            /\ ~Lacks2(Ranked(k), "properties", "WheelchairAccess")
                 => Items[k].wheelchair_access = Ranked(k).properties.WheelchairAccess

\* A record is returned for an event without location, description,
\* destination, estimate and properties, and another for an event whose
\* properties lack WheelchairAccess.
C12_Witness ==
    /\ Done200
    /\ \E k \in DOMAIN Items :
         /\ "location" \notin DOMAIN Ranked(k)
         /\ "properties" \notin DOMAIN Ranked(k)
         /\ Items[k].stop_name = ""
         /\ Items[k].route_name = ""
         /\ Items[k].destination = ""
         /\ Items[k].estimated_departure = <<>>
         /\ Items[k].wheelchair_access = "false"
    /\ \E k \in DOMAIN Items :
         /\ "properties" \in DOMAIN Ranked(k)
         /\ "WheelchairAccess" \notin DOMAIN Ranked(k).properties
         /\ Items[k].wheelchair_access = "false"

---------------------------------------------------------------------------
(* What plan_trip returns                                                  *)

\* plan_trip has processed a 200 response whose body is a JSON object.
TripDone200 ==
    /\ pc = "done"
    /\ tool = "plan_trip"
    /\ response.kind = "http"
    /\ response.status_code = 200
    /\ response.json = "object"

\* The journeys of the upstream response.
Journeys == Get(response.data, "journeys", <<>>)

\* C13: whenever upstream answers 200 with no error entry and at least one
\* journey, plan_trip returns a list of formatted journeys, each a mapping
\* with a 'legs' entry, whatever other fields the response carries.
C13_JourneysComeAsList ==
    (TripDone200 /\ "error" \notin DOMAIN response.data /\ Journeys # <<>>) =>
        /\ result.kind = "return"
        /\ result.value.t = "list"
        /\ \A i \in DOMAIN result.value.items : "legs" \in DOMAIN result.value.items[i]

---------------------------------------------------------------------------
(* The journeys that _format_journeys emits                                *)

\* The journey has at least one leg.
HasLegs(journey) == Get(journey, "legs", <<>>) # <<>>

\* The upstream journeys that have legs, in upstream order.
Legged == SelectSeq(Journeys, HasLegs)

\* plan_trip has returned what _format_journeys made of the journeys.
JourneysFormatted ==
    /\ TripDone200
    /\ "error" \notin DOMAIN response.data
    /\ Journeys # <<>>
    /\ result.kind = "return"
    /\ ~IsNone(result.value)

\* The output of _format_journeys, alone or beside the system messages.
Formatted ==
    IF result.value.t = "list" THEN result.value.items ELSE result.value.journeys

\* C14: _format_journeys never emits a journey with an empty leg list: a
\* journey whose legs are missing or empty is skipped, every other journey
\* gives exactly one output journey, in input order, with as many legs as
\* the input journey has.
C14_NoEmptyJourney ==
    JourneysFormatted =>
        /\ Len(Formatted) = Len(Legged)
        /\ \A k \in DOMAIN Formatted :
             /\ Formatted[k].legs # <<>>
             /\ Len(Formatted[k].legs) = Len(Legged[k].legs)
             /\ \A l \in DOMAIN Formatted[k].legs :
                  Formatted[k].legs[l].origin = Get2(Legged[k].legs[l], "origin", "name", "")

\* A journey without legs comes before a journey with two legs, and the
\* output is the one journey of two legs.
C14_Witness ==
    /\ JourneysFormatted
    /\ Len(Journeys) = 2
    /\ ~HasLegs(Journeys[1])
    /\ Len(Formatted) = 1
    /\ Len(Formatted[1].legs) = 2

\* The legs that were formatted, as pairs <<journey, leg>> of positions in
\* the output, which by C14 are the positions among the journeys with legs.
FormattedLegs ==
    UNION {{<<k, l>> : l \in DOMAIN Formatted[k].legs} : k \in DOMAIN Formatted}

\* The upstream leg of a formatted leg.
UpstreamLeg(kl) == Legged[kl[1]].legs[kl[2]]

\* The formatted leg.
FormattedLeg(kl) == Formatted[kl[1]].legs[kl[2]]

TransitOnlyFields == {"line", "towards", "operator", "realtime", "num_stops", "alerts"}

\* C15: a leg classified as Walking carries none of the transit-only
\* fields line, towards, operator, realtime, num_stops and alerts, whatever
\* the upstream leg contains.
C15_WalkingLegsCarryNoTransitFields ==
    JourneysFormatted =>
        \A kl \in FormattedLegs :
            FormattedLeg(kl).mode = <<"W", "a", "l", "k", "i", "n", "g">>
                => DOMAIN FormattedLeg(kl) \cap TransitOnlyFields = {}

\* The product of an upstream leg: its class when it has one, and its name
\* in lower case (empty when it has none).
ProductHasClass(leg) ==
    /\ "transportation" \in DOMAIN leg
    /\ "product" \in DOMAIN leg.transportation
    /\ "class" \in DOMAIN leg.transportation.product

ProductName(leg) ==
    IF /\ "transportation" \in DOMAIN leg
       /\ "product" \in DOMAIN leg.transportation
       /\ "name" \in DOMAIN leg.transportation.product
    THEN leg.transportation.product.name ELSE <<>>

\* The rule of the specification for a walking leg.
WalkingByRule(leg) ==
    \/ ProductHasClass(leg) /\ leg.transportation.product.class >= 99
    \/ lower(ProductName(leg)) = <<"w", "a", "l", "k", "i", "n", "g">>
    \/ lower(ProductName(leg)) = <<"f", "o", "o", "t", "p", "a", "t", "h">>
    \/ ProductName(leg) = <<>>

\* C16: every formatted leg has exactly one mode: 'Walking' if and only if
\* the product class is present and >= 99 or the product name, compared
\* without regard to case, is 'walking', 'footpath' or empty (also when it
\* is missing); otherwise the upstream product name verbatim.
C16_ModeByClassOrName ==
    JourneysFormatted =>
        \A kl \in FormattedLegs :
            /\ "mode" \in DOMAIN FormattedLeg(kl)
            /\ WalkingByRule(UpstreamLeg(kl))
                 => FormattedLeg(kl).mode = <<"W", "a", "l", "k", "i", "n", "g">>
            /\ ~WalkingByRule(UpstreamLeg(kl))
                 => FormattedLeg(kl).mode = ProductName(UpstreamLeg(kl))

\* Class 99 with name 'Walking' has given 'Walking', class 1 with name
\* 'Train' has given 'Train', and the name 'FootPath' alone has given
\* 'Walking'.
C16_Witness ==
    /\ JourneysFormatted
    /\ \E kl \in FormattedLegs :
         /\ ProductHasClass(UpstreamLeg(kl))
         /\ UpstreamLeg(kl).transportation.product.class = 99
         /\ ProductName(UpstreamLeg(kl)) = <<"W", "a", "l", "k", "i", "n", "g">>
         /\ FormattedLeg(kl).mode = <<"W", "a", "l", "k", "i", "n", "g">>
    /\ \E kl \in FormattedLegs :
         /\ ProductHasClass(UpstreamLeg(kl))
         /\ UpstreamLeg(kl).transportation.product.class = 1
         /\ FormattedLeg(kl).mode = <<"T", "r", "a", "i", "n">>
    /\ \E kl \in FormattedLegs :
         /\ ~ProductHasClass(UpstreamLeg(kl))
         /\ ProductName(UpstreamLeg(kl)) = <<"F", "o", "o", "t", "P", "a", "t", "h">>
         /\ FormattedLeg(kl).mode = <<"W", "a", "l", "k", "i", "n", "g">>

\* What the subtitles that upstream may send read as once every tag (a '<',
\* one or more characters other than '>', and a '>') is removed and the
\* blanks at both ends are stripped.
SubtitleText ==
    (Sub_delays :> <<"D", "e", "l", "a", "y", "s", " ", "e", "x", "p", "e", "c", "t", "e", "d">>)
    @@ (Sub_only_tags :> <<>>)
    @@ (Sub_lift :> <<"L", "i", "f", "t", " ", "o", "u", "t">>)
    @@ (Sub_open :> <<"a", " ", "<", " ", "b">>)
    @@ (Sub_empty_tag :> <<"x", "<", ">", "y">>)

NonEmpty(s) == s # <<>>

\* The texts of the info entries of a leg that are not empty, in upstream
\* order.
SurvivingTexts(leg) ==
    LET infos == Get(leg, "infos", <<>>)
        texts == [i \in DOMAIN infos |->
                    IF "subtitle" \in DOMAIN infos[i] THEN SubtitleText[infos[i].subtitle]
                    ELSE <<>>]
    IN  SelectSeq(texts, NonEmpty)

\* C17: for every leg, the 'alerts' field, when present, is a non-empty
\* list of at most 3 strings: the first three, in upstream order, of the
\* subtitles without their tags, those that are empty after stripping left
\* out; the field is absent when no subtitle survives.  The subtitle
\* "<p>Delays <b>expected</b></p>" gives "Delays expected".
C17_AlertsAreFirstThreeSurvivors ==
    JourneysFormatted =>
        \A kl \in FormattedLegs :
            LET kept == SurvivingTexts(UpstreamLeg(kl)) IN
            /\ kept = <<>> => "alerts" \notin DOMAIN FormattedLeg(kl)
            /\ kept # <<>> =>
                 /\ "alerts" \in DOMAIN FormattedLeg(kl)
                 /\ Len(FormattedLeg(kl).alerts) \in 1..3
                 /\ FormattedLeg(kl).alerts = SubSeq(kept, 1, Min(3, Len(kept)))

\* A leg with five info entries, four of which survive, has the first three
\* as its alerts, the first being "Delays expected"; another leg with info
\* entries of which none survives has no alerts.
C17_Witness ==
    /\ JourneysFormatted
    /\ \E kl \in FormattedLegs :
         /\ Len(Get(UpstreamLeg(kl), "infos", <<>>)) = 5
         /\ Len(SurvivingTexts(UpstreamLeg(kl))) = 4
         /\ Len(FormattedLeg(kl).alerts) = 3
         /\ FormattedLeg(kl).alerts[1] = <<"D", "e", "l", "a", "y", "s", " ", "e", "x", "p", "e", "c", "t", "e", "d">>
    /\ \E kl \in FormattedLegs :
         /\ Len(Get(UpstreamLeg(kl), "infos", <<>>)) = 2
         /\ SurvivingTexts(UpstreamLeg(kl)) = <<>>
         /\ "alerts" \notin DOMAIN FormattedLeg(kl)

\* The timestamp is there and parses.
TimeParses(time_str) == ~Falsy(time_str) /\ parse_departure(time_str.s).ok

\* The first leg's planned departure and the last leg's planned arrival of
\* an upstream journey both parse.
BothEndsParse(journey) ==
    /\ TimeParses(GetStr2(journey.legs[1], "origin", "departureTimePlanned"))
    /\ TimeParses(GetStr2(journey.legs[Len(journey.legs)], "destination",
                          "arrivalTimePlanned"))

JourneyTimeFields == {"total_duration_minutes", "depart", "arrive"}

\* C18: in every emitted journey total_duration_minutes, depart and arrive
\* are present together or absent together; they are present if and only
\* if the first leg's planned departure and the last leg's planned arrival
\* both parse; a failure of either omits the three fields and keeps the
\* journey and its legs.
C18_JourneyTimesTogether ==
    JourneysFormatted =>
        /\ Len(Formatted) = Len(Legged)
        /\ \A k \in DOMAIN Formatted :
             /\ Len(Formatted[k].legs) = Len(Legged[k].legs)
             /\ BothEndsParse(Legged[k]) => JourneyTimeFields \subseteq DOMAIN Formatted[k]
             /\ ~BothEndsParse(Legged[k]) => JourneyTimeFields \cap DOMAIN Formatted[k] = {}

\* One emitted journey has the three fields, and another, whose last
\* arrival does not parse although its first departure does, has its legs
\* and none of the three.
C18_Witness ==
    /\ JourneysFormatted
    /\ \E k \in DOMAIN Formatted :
         /\ BothEndsParse(Legged[k])
         /\ JourneyTimeFields \subseteq DOMAIN Formatted[k]
         /\ Formatted[k].total_duration_minutes = 30
    /\ \E k \in DOMAIN Formatted :
         /\ TimeParses(GetStr2(Legged[k].legs[1], "origin", "departureTimePlanned"))
         /\ ~BothEndsParse(Legged[k])
         /\ DOMAIN Formatted[k] = {"legs"}
         /\ Len(Formatted[k].legs) = 2

\* What the claim gives for a timestamp: the empty string when it is
\* absent, the string itself when it is empty or does not match
\* YYYY-MM-DDTHH:MM:SS once the fraction and a trailing Z are removed, and
\* the local rendering YYYY-MM-DD HH:MM in every other case.
RenderedOrOriginal(time_str) ==
    IF IsNone(time_str) THEN <<>>
    ELSE IF ~TimeParses(time_str) THEN time_str.s
    ELSE strftime_minutes(astimezone(parse_departure(time_str.s).dt, tz))

\* C19: _parse_api_time returns None, never an error, when its input is
\* absent, empty or does not match the pattern; in exactly those cases
\* _format_api_time returns the original string (the empty string when the
\* input is absent), and in every other case it returns the local-time
\* rendering YYYY-MM-DD HH:MM.  Seen from plan_trip: every time of every
\* leg of a journey with legs comes back formatted in this way.
C19_FallsBackOrRenders ==
    (TripDone200 /\ "error" \notin DOMAIN response.data /\ Legged # <<>>) =>
        /\ result.kind = "return"
        /\ ~IsNone(result.value)
        /\ \A kl \in FormattedLegs :
             /\ FormattedLeg(kl).departure_planned
                  = RenderedOrOriginal(GetStr2(UpstreamLeg(kl), "origin",
                                               "departureTimePlanned"))
             /\ FormattedLeg(kl).arrival_planned
                  = RenderedOrOriginal(GetStr2(UpstreamLeg(kl), "destination",
                                               "arrivalTimePlanned"))
             /\ "arrival_estimated" \in DOMAIN FormattedLeg(kl)
                  => FormattedLeg(kl).arrival_estimated
                       = RenderedOrOriginal(GetStr2(UpstreamLeg(kl), "destination",
                                                    "arrivalTimeEstimated"))
===========================================================================
